---------------------------- MODULE Spec2Model ----------------------------
(***************************************************************************)
(* Binomial heap of bhickey/binomial.rs.                                   *)
(*                                                                         *)
(* src/src/lib.rs is the max-first heap, src/src/main.rs the min-first     *)
(* heap; the two files differ only in the comparison used by combine, pop  *)
(* and peek.  The variable ord selects the file ("max" = lib.rs,           *)
(* "min" = main.rs).                                                       *)
(*                                                                         *)
(* A VecDeque is a sequence: index 1 is the front, index Len is the back.  *)
(* A Node (Box<NodeData>) is a record [rank, value, nodes].                *)
(* An Option<i32> is <<>> (None) or <<v>> (Some(v)).                       *)
(* rank is a u16 and len() a usize: with at most MaxPush elements no rank  *)
(* exceeds log2(MaxPush), so neither width is ever reached.                *)
(***************************************************************************)
EXTENDS Integers, Sequences, FiniteSets

VARIABLES ord, heap, size, ref, ret, call, npush, input, out, phase, mn

vars == <<ord, heap, size, ref, ret, call, npush, input, out, phase, mn>>

\* Bounds of the model.
MaxPush == 6
MaxVal == 2
MaxN == 5
MaxRoots == 2
MaxRank == 2

\* Two heaps: enough for h.merge(other), each side built by its own pushes
\* and pops.
Heaps == {1, 2}
Values == 1..MaxVal

None == <<>>
Some(v) == <<v>>

---------------------------------------------------------------------------
\* Helpers on sequences standing for VecDeque operations.

Last(s) == s[Len(s)]
Front(s) == SubSeq(s, 1, Len(s) - 1)
Reverse(s) == [i \in 1..Len(s) |-> s[Len(s) + 1 - i]]
RemoveAt(s, i) == SubSeq(s, 1, i - 1) \o SubSeq(s, i + 1, Len(s))

\* NodeData { rank: 0, value: value, nodes: VecDeque::new() }
leaf(value) == [rank |-> 0, value |-> value, nodes |-> <<>>]

\* h1.value >= h2.value (lib.rs)  /  h1.value <= h2.value (main.rs)
dominates(o, x, y) == IF o = "max" THEN x >= y ELSE x <= y

\* node.value > self.heads[min_idx].value (lib.rs) / < (main.rs)
better(o, x, y) == IF o = "max" THEN x > y ELSE x < y

\* combine with the link reversed: the dominated operand becomes the parent.
combine_swapped(o, h1, h2) ==
    IF dominates(o, h1.value, h2.value)
    THEN [h2 EXCEPT !.rank = @ + 1, !.nodes = Append(@, h1)]
    ELSE [h1 EXCEPT !.rank = @ + 1, !.nodes = Append(@, h2)]

\* combine without `h1.rank += 1`.
combine_norank(o, h1, h2) ==
    IF dominates(o, h1.value, h2.value)
    THEN [h1 EXCEPT !.nodes = Append(@, h2)]
    ELSE [h2 EXCEPT !.nodes = Append(@, h1)]

\* fn combine(mut h1: Node, h2: Node) -> Node
combine(o, h1, h2) ==
    IF dominates(o, h1.value, h2.value)
    THEN [h1 EXCEPT !.rank = @ + 1, !.nodes = Append(@, h2)]
    ELSE [h2 EXCEPT !.rank = @ + 1, !.nodes = Append(@, h1)]

\* x.back().map(|n| n.rank).unwrap_or(0)
back_rank(s) == IF s = <<>> THEN 0 ELSE Last(s).rank

\* The drain loop left out: what the recursive call returned is dropped.
drain_lossy(result, recur) == result

\* loop { match recur.pop_back() { None => break,
\*                                Some(x) => result.push_back(x) } }
drain(result, recur) == result \o Reverse(recur)

\* The loop of merge_nodes with its local `result`; a and b are the two
\* &mut deques.  The value is the state on return: the returned deque and
\* what is left in a and b.  `recur` is drained from its back into result.
RECURSIVE merge_loop(_, _, _, _)
merge_loop(o, a, b, result) ==
    IF a = <<>> /\ b = <<>> THEN [result |-> result, a |-> a, b |-> b]
    ELSE IF b = <<>> THEN merge_loop(o, Front(a), b, Append(result, Last(a)))
    ELSE IF a = <<>> THEN merge_loop(o, a, Front(b), Append(result, Last(b)))
    ELSE
      LET h1 == Last(a)
          h2 == Last(b)
          a1 == Front(a)
          b1 == Front(b)
      IN
      IF h1.rank = h2.rank THEN
        LET merged == combine(o, h1, h2)
            r == merged.rank
        IN
        IF r # back_rank(a1) THEN
          IF r # back_rank(b1) THEN
            LET rec == merge_loop(o, a1, b1, <<>>) IN
            merge_loop(o, rec.a, rec.b,
                       Append(drain(result, rec.result), merged))
          ELSE
            LET rec == merge_loop(o, Append(a1, merged), b1, <<>>) IN
            merge_loop(o, rec.a, rec.b, drain(result, rec.result))
        ELSE
          IF r # back_rank(b1) THEN
            LET rec == merge_loop(o, a1, Append(b1, merged), <<>>) IN
            merge_loop(o, rec.a, rec.b, drain(result, rec.result))
          ELSE
            LET rec == merge_loop(o, a1, b1, <<>>) IN
            merge_loop(o, rec.a, rec.b,
                       Append(drain(result, rec.result), merged))
      ELSE IF h1.rank < h2.rank THEN
        LET rec == merge_loop(o, a1, Append(b1, h2), <<>>) IN
        merge_loop(o, rec.a, rec.b,
                   Append(drain(result, rec.result), h1))
      ELSE
        \* merge_nodes(b, a): the callee's a is this b, its b is this a
        LET rec == merge_loop(o, b1, Append(a1, h1), <<>>) IN
        merge_loop(o, rec.b, rec.a,
                   Append(drain(result, rec.result), h2))

\* fn merge_nodes(a: &mut VecDeque<Node>, b: &mut VecDeque<Node>)
merge_nodes(o, a, b) == merge_loop(o, a, b, <<>>)


---------------------------------------------------------------------------
\* impl BinomialHeap: each method as a function of the root list `heads`.

\* The record of one merge_nodes call: its operands, the returned deque and
\* what it left in the operands; no_call when merge_nodes was not called.
no_call == [made |-> FALSE, a |-> <<>>, b |-> <<>>, result |-> <<>>,
            a_left |-> <<>>, b_left |-> <<>>]

mk_call(a, b, m) == [made |-> TRUE, a |-> a, b |-> b, result |-> m.result,
                     a_left |-> m.a, b_left |-> m.b]

\* BinomialHeap::new
new == <<>>

\* BinomialHeap::push: the new root list (and the merge_nodes call made)
push(o, heads, value) ==
    LET v == <<leaf(value)>>
        m == merge_nodes(o, heads, v)
    IN [heads |-> m.result, call |-> mk_call(heads, v, m)]

\* The scan of pop: i is the next index to visit, min_idx the current best
\* (1-based here, 0-based in the source).
\* The scan left out: min_idx stays at the front root.
scan_first(o, heads, i, min_idx) == min_idx

RECURSIVE scan(_, _, _, _)
scan(o, heads, i, min_idx) ==
    IF i > Len(heads) THEN min_idx
    ELSE IF better(o, heads[i].value, heads[min_idx].value)
         THEN scan(o, heads, i + 1, i)
         ELSE scan(o, heads, i + 1, min_idx)

\* The two operands pop hands to merge_nodes: the root list without the
\* extracted root, and the extracted root's children.
pop_args(o, heads) ==
    LET min_idx == scan(o, heads, 1, 1) IN
    [value |-> heads[min_idx].value,
     a |-> RemoveAt(heads, min_idx),
     b |-> heads[min_idx].nodes]

\* pop with the early return taken for a single root too.
pop_short(o, heads) ==
    IF Len(heads) <= 1
    THEN [ret |-> None, heads |-> heads, call |-> no_call]
    ELSE LET p == pop_args(o, heads)
             m == merge_nodes(o, p.a, p.b)
         IN [ret |-> Some(p.value), heads |-> m.result,
             call |-> mk_call(p.a, p.b, m)]

\* BinomialHeap::pop: the returned Option and the new root list (and the
\* merge_nodes call made)
pop(o, heads) ==
    IF heads = <<>>
    THEN [ret |-> None, heads |-> heads, call |-> no_call]
    ELSE LET p == pop_args(o, heads)
             m == merge_nodes(o, p.a, p.b)
         IN [ret |-> Some(p.value), heads |-> m.result,
             call |-> mk_call(p.a, p.b, m)]

\* Iterator::max / Iterator::min over the root values
RECURSIVE fold_best(_, _, _, _)
fold_best(o, heads, i, acc) ==
    IF i > Len(heads) THEN acc
    ELSE fold_best(o, heads, i + 1,
                   IF better(o, heads[i].value, acc)
                   THEN heads[i].value ELSE acc)

\* peek without the scan: the value of the front root.
peek_front(o, heads) ==
    IF heads = <<>> THEN None ELSE Some(heads[1].value)

\* BinomialHeap::peek
peek(o, heads) ==
    IF heads = <<>> THEN None
    ELSE Some(fold_best(o, heads, 2, heads[1].value))

\* is_empty off by one: true for a single root too.
is_empty_single(heads) == Len(heads) <= 1

\* BinomialHeap::is_empty
is_empty(heads) == heads = <<>>

\* 1 << (x - 1) in place of 2 << (x - 1).
shl1(x) == 2 ^ (x - 1)

\* 2 << (x - 1)
shl2(x) == 2 * (2 ^ (x - 1))

\* The loop of len: i is the next root to visit, sz the running sum.
RECURSIVE len_loop(_, _, _)
len_loop(heads, i, sz) ==
    IF i > Len(heads) THEN sz
    ELSE len_loop(heads, i + 1,
                  IF heads[i].rank = 0 THEN sz + 1
                  ELSE sz + shl2(heads[i].rank))

\* BinomialHeap::len
len(heads) == len_loop(heads, 1, 0)

\* merge that drops the merged deque: self keeps its own roots only.
merge_discard(o, heads, other) ==
    LET m == merge_nodes(o, heads, other) IN
    [heads |-> heads, other |-> m.b, call |-> mk_call(heads, other, m)]

\* BinomialHeap::merge: the new root list of self, and what is left in
\* other.heads when `other` is dropped (and the merge_nodes call made)
merge(o, heads, other) ==
    LET m == merge_nodes(o, heads, other) IN
    [heads |-> m.result, other |-> m.b, call |-> mk_call(heads, other, m)]

\* loop { match heap.pop() { None => break, Some(x) => heap_sorted.push(x) } }
\* on a heap with root list `heads`: the values popped, in order.
RECURSIVE drain_heap(_, _)
drain_heap(o, heads) ==
    LET r == pop(o, heads) IN
    IF r.ret = None THEN <<>>
    ELSE <<r.ret[1]>> \o drain_heap(o, r.heads)

---------------------------------------------------------------------------
\* The reference priority queue: a multiset of values, as a count per
\* value (std BinaryHeap in bench_builtin plays this part).

ref_new == [v \in Values |-> 0]
ref_push(q, v) == [q EXCEPT ![v] = @ + 1]
ref_present(q) == {v \in Values : q[v] > 0}
ref_best(o, q) ==
    CHOOSE v \in ref_present(q) : \A w \in ref_present(q) : dominates(o, v, w)
ref_peek(o, q) == IF ref_present(q) = {} THEN None ELSE Some(ref_best(o, q))
ref_pop(o, q) ==
    IF ref_present(q) = {} THEN q ELSE [q EXCEPT ![ref_best(o, q)] = @ - 1]
ref_merge(q1, q2) == [v \in Values |-> q1[v] + q2[v]]

---------------------------------------------------------------------------
\* State.
\*   ord    which file: "max" (lib.rs) or "min" (main.rs)
\*   heap   heap[i] is the `heads` deque of the i-th BinomialHeap
\*   size   pushes on heap i and on the heaps merged into it, minus its
\*          pops that returned a value
\*   ref    the reference queue driven by the same operations
\*   ret    the last operation: its name, its heap, the number of elements
\*          the heap held when it was called, the Option it returned and
\*          the Option the reference returned
\*   call   the merge_nodes call of the last operation: its operands, the
\*          returned deque and what it left in the operands
\*   npush  number of pushes so far
\*   input, out, phase   the push-all-then-drain run of bench_binomial
\*   mn     one execution of merge_nodes taken step by step: the two
\*          deques, the stack of active calls, and the returned deque

\* No execution of merge_nodes is being stepped.
mn_idle == [a0 |-> <<>>, b0 |-> <<>>, dq |-> <<<<>>, <<>>>>, stack |-> <<>>,
            done |-> TRUE, result |-> <<>>, link |-> <<>>,
            org |-> <<<<>>, <<>>>>]

Init ==
    /\ ord \in {"max", "min"}
    /\ heap = [i \in Heaps |-> new]
    /\ size = [i \in Heaps |-> 0]
    /\ ref = [i \in Heaps |-> ref_new]
    /\ ret = [op |-> "new", h |-> 1, n |-> 0, val |-> None, exp |-> None]
    /\ call = no_call
    /\ npush = 0
    /\ input = <<>>
    /\ out = <<>>
    /\ phase = "free"
    /\ mn = mn_idle

\* heap[i].push(v)
Push(i, v) ==
    /\ phase = "free"
    /\ npush < MaxPush
    /\ LET r == push(ord, heap[i], v) IN
       /\ heap' = [heap EXCEPT ![i] = r.heads]
       /\ call' = r.call
    /\ size' = [size EXCEPT ![i] = @ + 1]
    /\ ref' = [ref EXCEPT ![i] = ref_push(@, v)]
    /\ ret' = [op |-> "push", h |-> i, n |-> size[i], val |-> None,
               exp |-> None]
    /\ npush' = npush + 1
    /\ UNCHANGED <<ord, input, out, phase, mn>>

\* heap[i].pop()
Pop(i) ==
    /\ phase = "free"
    /\ LET r == pop(ord, heap[i]) IN
       /\ heap' = [heap EXCEPT ![i] = r.heads]
       /\ call' = r.call
       /\ size' = [size EXCEPT ![i] = IF r.ret = None THEN @ ELSE @ - 1]
       /\ ret' = [op |-> "pop", h |-> i, n |-> size[i], val |-> r.ret,
                  exp |-> ref_peek(ord, ref[i])]
    /\ ref' = [ref EXCEPT ![i] = ref_pop(ord, @)]
    /\ UNCHANGED <<ord, npush, input, out, phase, mn>>

\* heap[i].peek()
Peek(i) ==
    /\ phase = "free"
    /\ ret' = [op |-> "peek", h |-> i, n |-> size[i],
               val |-> peek(ord, heap[i]), exp |-> ref_peek(ord, ref[i])]
    /\ call' = no_call
    /\ UNCHANGED <<ord, heap, size, ref, npush, input, out, phase, mn>>

\* heap[i].merge(heap[j]); heap j is moved into the call and dropped, and
\* slot j then stands for a heap with what was left in other.heads.
Merge(i, j) ==
    /\ phase = "free"
    /\ i # j
    /\ LET m == merge(ord, heap[i], heap[j]) IN
       /\ heap' = [heap EXCEPT ![i] = m.heads, ![j] = m.other]
       /\ call' = m.call
    /\ size' = [size EXCEPT ![i] = size[i] + size[j], ![j] = 0]
    /\ ref' = [ref EXCEPT ![i] = ref_merge(ref[i], ref[j]), ![j] = ref_new]
    /\ ret' = [op |-> "merge", h |-> i, n |-> size[i], val |-> None,
               exp |-> None]
    /\ UNCHANGED <<ord, npush, input, out, phase, mn>>

Next ==
    \/ \E i \in Heaps, v \in Values : Push(i, v)
    \/ \E i \in Heaps : Pop(i)
    \/ \E i \in Heaps : Peek(i)
    \/ \E i, j \in Heaps : Merge(i, j)

Spec == Init /\ [][Next]_vars

---------------------------------------------------------------------------
\* The run of bench_binomial: push every value of an input onto a fresh
\* heap, then pop until None, collecting what pop returns.

InitOrder ==
    /\ ord \in {"max", "min"}
    /\ heap = [i \in Heaps |-> new]
    /\ size = [i \in Heaps |-> 0]
    /\ ref = [i \in Heaps |-> ref_new]
    /\ ret = [op |-> "new", h |-> 1, n |-> 0, val |-> None, exp |-> None]
    /\ call = no_call
    /\ npush = 0
    /\ input = <<>>
    /\ out = <<>>
    /\ phase = "push"
    /\ mn = mn_idle

\* for v in &values { heap.push(*v) }
OrderPush(v) ==
    /\ phase = "push"
    /\ Len(input) < MaxN
    /\ heap' = [heap EXCEPT ![1] = push(ord, heap[1], v).heads]
    /\ input' = Append(input, v)
    /\ UNCHANGED <<ord, size, ref, ret, call, npush, out, phase, mn>>

\* loop { match heap.pop() { None => break, Some(x) => ... } }; the None
\* that ends the loop is recorded too.
OrderPop ==
    /\ phase \in {"push", "pop"}
    /\ LET r == pop(ord, heap[1]) IN
       /\ heap' = [heap EXCEPT ![1] = r.heads]
       /\ out' = Append(out, r.ret)
       /\ phase' = IF r.ret = None THEN "done" ELSE "pop"
    /\ UNCHANGED <<ord, size, ref, ret, call, npush, input, mn>>

NextOrder ==
    \/ \E v \in Values : OrderPush(v)
    \/ OrderPop

SpecOrder == InitOrder /\ [][NextOrder]_vars

\* v.sort_by(|x, y| y.cmp(x)) of the bench (ascending for main.rs):
\* insertion sort, best value first.
RECURSIVE insert_sorted(_, _, _)
insert_sorted(o, s, v) ==
    IF s = <<>> THEN <<v>>
    ELSE IF better(o, v, s[1]) THEN <<v>> \o s
    ELSE <<s[1]>> \o insert_sorted(o, Tail(s), v)

RECURSIVE sorted(_, _)
sorted(o, s) ==
    IF s = <<>> THEN <<>>
    ELSE insert_sorted(o, sorted(o, Front(s)), Last(s))

---------------------------------------------------------------------------
\* merge_nodes step by step.  The two deques behind the &mut references are
\* mn.dq[1] and mn.dq[2]; every active call is a frame of mn.stack: which
\* deque is its `a` and which its `b`, its local `result`, and `pend`, the
\* node it pushes onto result once the recursive call it waits for has
\* returned and has been drained (empty when the arm pushes none).  One
\* step is one iteration of the loop of the innermost call.

\* The binomial tree of rank r that pushes of the value 1 build.
RECURSIVE tree(_)
tree(r) == [rank |-> r, value |-> 1, nodes |-> [k \in 1..r |-> tree(k - 1)]]

\* Root lists of at most MaxRoots trees of rank at most MaxRank, in any
\* rank order.
Forests ==
    UNION {[1..k -> {tree(r) : r \in 0..MaxRank}] : k \in 0..MaxRoots}

\* The outermost call merge_nodes(a, b) is entered.  `link` holds the
\* operands of combine when the step just taken called it; org[k][n] tells
\* which argument of the outermost call (1 for a, 2 for b) the root
\* dq[k][n] was handed in with, a linked tree counting as its root.
mn_start(a, b) ==
    [a0 |-> a, b0 |-> b, dq |-> <<a, b>>,
     stack |-> <<[a |-> 1, b |-> 2, result |-> <<>>, pend |-> <<>>]>>,
     done |-> FALSE, result |-> <<>>, link |-> <<>>,
     org |-> <<[n \in 1..Len(a) |-> 1], [n \in 1..Len(b) |-> 2]>>]

\* Ordering::Equal arm, up to the recursive call: a and b as handed to it,
\* the node pushed after it, and the operands combine was called with.
\* a1 and b1 are a and b after pop_back.
arm_equal(o, a1, b1, h1, h2) ==
    LET merged == combine(o, h1, h2)
        r == merged.rank
        l == <<[h1 |-> h1, h2 |-> h2]>>
    IN
    IF r # back_rank(a1) THEN
      IF r # back_rank(b1)
      THEN [a |-> a1, b |-> b1, swap |-> FALSE, pend |-> <<merged>>,
            link |-> l]
      ELSE [a |-> Append(a1, merged), b |-> b1, swap |-> FALSE,
            pend |-> <<>>, link |-> l]
    ELSE
      IF r # back_rank(b1)
      THEN [a |-> a1, b |-> Append(b1, merged), swap |-> FALSE,
            pend |-> <<>>, link |-> l]
      ELSE [a |-> a1, b |-> b1, swap |-> FALSE, pend |-> <<merged>>,
            link |-> l]

\* Ordering::Less arm
arm_less(o, a1, b1, h1, h2) ==
    [a |-> a1, b |-> Append(b1, h2), swap |-> FALSE, pend |-> <<h1>>,
     link |-> <<>>]

\* Ordering::Greater with h2 put back on b as the Less arm does.
arm_greater_keep(o, a1, b1, h1, h2) ==
    [a |-> Append(a1, h1), b |-> Append(b1, h2), swap |-> TRUE,
     pend |-> <<h2>>, link |-> <<>>]

\* Ordering::Greater arm: the recursive call is merge_nodes(b, a)
arm_greater(o, a1, b1, h1, h2) ==
    [a |-> Append(a1, h1), b |-> b1, swap |-> TRUE, pend |-> <<h2>>,
     link |-> <<>>]

\* The match with Less taken for Equal: roots of different rank are linked.
arm_le(o, a1, b1, h1, h2) ==
    IF h1.rank <= h2.rank THEN arm_equal(o, a1, b1, h1, h2)
    ELSE arm_greater(o, a1, b1, h1, h2)

\* match h1.rank.cmp(&h2.rank)
arm(o, a1, b1, h1, h2) ==
    IF h1.rank = h2.rank THEN arm_equal(o, a1, b1, h1, h2)
    ELSE IF h1.rank < h2.rank THEN arm_less(o, a1, b1, h1, h2)
    ELSE arm_greater(o, a1, b1, h1, h2)

\* The innermost active call of m and the deques its a and b refer to.
mn_top(m) == Last(m.stack)
mn_a(m) == m.dq[mn_top(m).a]
mn_b(m) == m.dq[mn_top(m).b]

\* (None, None) => return result.  The caller drains the returned deque
\* into its result and pushes its pending node; the outermost call hands
\* the deque to push, pop or merge.
mn_return(m) ==
    IF Len(m.stack) = 1
    THEN [m EXCEPT !.stack = <<>>, !.done = TRUE,
                   !.result = mn_top(m).result, !.link = <<>>]
    ELSE LET c == m.stack[Len(m.stack) - 1]
             c2 == [c EXCEPT !.result = drain(c.result, mn_top(m).result)
                                            \o c.pend,
                             !.pend = <<>>]
         IN [m EXCEPT !.stack = Append(Front(Front(m.stack)), c2),
                      !.link = <<>>]

\* (Some(h1), None) => result.push_back(h1) and
\* (None, Some(h2)) => result.push_back(h2)
mn_emit(m) ==
    LET f == mn_top(m)
        k == IF mn_b(m) = <<>> THEN f.a ELSE f.b
    IN [m EXCEPT !.dq[k] = Front(@),
                 !.org[k] = Front(@),
                 !.stack[Len(m.stack)].result = Append(@, Last(m.dq[k])),
                 !.link = <<>>]

\* (Some(h1), Some(h2)): the arm up to and including its recursive call
mn_recurse(o, m) ==
    LET f == mn_top(m)
        x == arm(o, Front(mn_a(m)), Front(mn_b(m)),
                 Last(mn_a(m)), Last(mn_b(m)))
        callee == [a |-> IF x.swap THEN f.b ELSE f.a,
                   b |-> IF x.swap THEN f.a ELSE f.b,
                   result |-> <<>>, pend |-> <<>>]
        o1 == Last(m.org[f.a])
        o2 == Last(m.org[f.b])
        linked == x.link # <<>>
        parent == IF dominates(o, Last(mn_a(m)).value, Last(mn_b(m)).value)
                  THEN o1 ELSE o2
        org_a == IF Len(x.a) = Len(mn_a(m))
                 THEN Append(Front(m.org[f.a]), IF linked THEN parent ELSE o1)
                 ELSE Front(m.org[f.a])
        org_b == IF Len(x.b) = Len(mn_b(m))
                 THEN Append(Front(m.org[f.b]), IF linked THEN parent ELSE o2)
                 ELSE Front(m.org[f.b])
    IN [m EXCEPT !.dq[f.a] = x.a,
                 !.dq[f.b] = x.b,
                 !.org[f.a] = org_a,
                 !.org[f.b] = org_b,
                 !.stack = Append([@ EXCEPT ![Len(@)].pend = x.pend],
                                  callee),
                 !.link = IF linked
                          THEN <<[h1 |-> x.link[1].h1, h2 |-> x.link[1].h2,
                                  o1 |-> o1, o2 |-> o2, parent |-> parent]>>
                          ELSE <<>>]

\* One iteration of the loop of the innermost call.
mn_step(o, m) ==
    IF mn_a(m) = <<>> /\ mn_b(m) = <<>> THEN mn_return(m)
    ELSE IF mn_a(m) = <<>> \/ mn_b(m) = <<>> THEN mn_emit(m)
    ELSE mn_recurse(o, m)

\* merge_nodes(a, b) run to its return.
RECURSIVE mn_run(_, _)
mn_run(o, m) == IF m.done THEN m ELSE mn_run(o, mn_step(o, m))

\* The operand pairs combine is called with while m runs to its return.
RECURSIVE mn_links(_, _)
mn_links(o, m) ==
    IF m.done THEN {}
    ELSE LET n == mn_step(o, m) IN
         {n.link[k] : k \in 1..Len(n.link)} \cup mn_links(o, n)

InitTerm ==
    /\ ord \in {"max", "min"}
    /\ heap = [i \in Heaps |-> new]
    /\ size = [i \in Heaps |-> 0]
    /\ ref = [i \in Heaps |-> ref_new]
    /\ ret = [op |-> "new", h |-> 1, n |-> 0, val |-> None, exp |-> None]
    /\ call = no_call
    /\ npush = 0
    /\ input = <<>>
    /\ out = <<>>
    /\ phase = "merge_nodes"
    /\ \E a, b \in Forests : mn = mn_start(a, b)

MnReturn ==
    /\ ~mn.done
    /\ mn_a(mn) = <<>> /\ mn_b(mn) = <<>>
    /\ mn' = mn_return(mn)
    /\ UNCHANGED <<ord, heap, size, ref, ret, call, npush, input, out, phase>>

MnEmit ==
    /\ ~mn.done
    /\ (mn_a(mn) = <<>>) # (mn_b(mn) = <<>>)
    /\ mn' = mn_emit(mn)
    /\ UNCHANGED <<ord, heap, size, ref, ret, call, npush, input, out, phase>>

MnRecurse ==
    /\ ~mn.done
    /\ mn_a(mn) # <<>> /\ mn_b(mn) # <<>>
    /\ mn' = mn_recurse(ord, mn)
    /\ UNCHANGED <<ord, heap, size, ref, ret, call, npush, input, out, phase>>

NextTerm ==
    \/ MnReturn
    \/ MnEmit
    \/ MnRecurse

\* A running call always takes its next step.
SpecTerm == InitTerm /\ [][NextTerm]_vars /\ WF_vars(NextTerm)

---------------------------------------------------------------------------
\* C1 (Order property): when the drain of a heap built by n pushes has
\* ended, the n + 1 pops returned the pushed values best first (largest
\* first for lib.rs, smallest first for main.rs) and then None.
C1_OrderProperty ==
    phase = "done" =>
        out = [k \in 1..Len(input) |-> Some(sorted(ord, input)[k])]
              \o <<None>>

\* A drain of a heap that received MaxN values, not all equal and not
\* pushed in sorted order, has ended.
C1_Witness ==
    /\ phase = "done"
    /\ Len(input) = MaxN
    /\ input # sorted(ord, input)
    /\ \E k \in 1..Len(input) : input[k] # input[1]

---------------------------------------------------------------------------
\* What the claims speak of: the nodes of a forest, their values, the
\* rank order of a root list, the shape and the order of a tree.

\* Number of nodes (roots and all descendants) of a forest.
RECURSIVE count_nodes(_)
count_nodes(f) ==
    IF f = <<>> THEN 0
    ELSE 1 + count_nodes(Last(f).nodes) + count_nodes(Front(f))

\* Number of nodes of a forest that hold the value v.
RECURSIVE count_value(_, _)
count_value(f, v) ==
    IF f = <<>> THEN 0
    ELSE (IF Last(f).value = v THEN 1 ELSE 0)
         + count_value(Last(f).nodes, v) + count_value(Front(f), v)

\* No two roots of f have the same rank.
distinct_ranks(f) ==
    \A i, j \in 1..Len(f) : i # j => f[i].rank # f[j].rank

\* Read from the back of the deque, the root ranks of f strictly ascend.
rank_sorted(f) ==
    \A i, j \in 1..Len(f) : i < j => f[i].rank > f[j].rank

\* Bit k of n.
bit(n, k) == (n \div (2 ^ k)) % 2

\* ---- C2 ----------------------------------------------------------------
\* C2 (Reference equivalence): whatever pushes, pops and merges came before,
\* every pop returns what the reference priority queue returns for the same
\* operation sequence: the same value, or None in both.
C2_ReferenceEquivalence ==
    ret.op = "pop" => ret.val = ret.exp

\* A pop that returned a value from a heap holding both values, after at
\* least one merge of two non-empty heaps could have happened (the heap
\* holds more than one root).
C2_Witness ==
    /\ ret.op = "pop"
    /\ ret.val # None
    /\ ret.n >= 4
    /\ Len(call.a) >= 1
    /\ Len(call.b) >= 1
    /\ \E v \in Values : ref[ret.h][v] > 0 /\ Some(v) # ret.val

\* ---- C3 ----------------------------------------------------------------
\* C3 (Size property): len() of every heap equals the pushes made on it and
\* on the heaps merged into it, minus its pops that returned a value.
C3_SizeProperty ==
    \A i \in Heaps : len(heap[i]) = size[i]

\* A merge of two non-empty heaps has just produced a heap of at least four
\* elements, and some earlier pop returned a value.
C3_Witness ==
    /\ ret.op = "merge"
    /\ call.a # <<>>
    /\ call.b # <<>>
    /\ size[ret.h] >= 4
    /\ npush > size[1] + size[2]

\* ---- C4 ----------------------------------------------------------------
\* C4 (Unique root ranks): in every reachable state no two roots of a heap
\* have the same rank, and a root of rank k exists exactly when bit k of the
\* heap's element count is set.
C4_UniqueRootRanks ==
    \A i \in Heaps :
        /\ distinct_ranks(heap[i])
        /\ \A k \in 0..MaxPush :
               (\E x \in 1..Len(heap[i]) : heap[i][x].rank = k)
                   <=> bit(count_nodes(heap[i]), k) = 1

\* ---- C5 ----------------------------------------------------------------
\* C5 (Rank-ordered root list): in every reachable state the root list of
\* every heap, read from the back of the deque, has strictly ascending
\* ranks.
C5_RankOrderedRoots ==
    \A i \in Heaps : rank_sorted(heap[i])

\* ---- C6 ----------------------------------------------------------------
\* C6 (Forest-merge postcondition): whenever merge_nodes is called with two
\* forests that are each rank-sorted with the lowest rank at the back (an
\* empty forest included), the deque it returns is rank-sorted in the same
\* orientation, hence without duplicate ranks.
C6_MergePostcondition ==
    (call.made /\ rank_sorted(call.a) /\ rank_sorted(call.b))
        => (rank_sorted(call.result) /\ distinct_ranks(call.result))

\* ---- C7 ----------------------------------------------------------------
\* C7 (Merge conservation): the nodes of the deque merge_nodes returns are
\* exactly those of its two operands together, value by value, both
\* operands are empty when it returns, and after merge the other heap owns
\* no node.
C7_MergeConservation ==
    /\ call.made =>
         /\ \A v \in Values :
                count_value(call.result, v)
                    = count_value(call.a, v) + count_value(call.b, v)
         /\ count_nodes(call.result)
                = count_nodes(call.a) + count_nodes(call.b)
         /\ call.a_left = <<>>
         /\ call.b_left = <<>>
    /\ ret.op = "merge" => \A j \in Heaps \ {ret.h} : heap[j] = <<>>

\* A merge of two heaps of at least two elements each, holding different
\* values, has just returned.
C7_Witness ==
    /\ ret.op = "merge"
    /\ count_nodes(call.a) >= 2
    /\ count_nodes(call.b) >= 2
    /\ \E v, w \in Values :
           v # w /\ count_value(call.a, v) > 0 /\ count_value(call.b, w) > 0

\* ---- C8 ----------------------------------------------------------------
\* A node of rank r has exactly r children, of ranks 0, 1, ..., r-1 from
\* the front to the back of its deque, and so has every descendant.
RECURSIVE shape_ok(_)
shape_ok(n) ==
    /\ Len(n.nodes) = n.rank
    /\ \A k \in 1..Len(n.nodes) :
           n.nodes[k].rank = k - 1 /\ shape_ok(n.nodes[k])

\* C8 (Binomial-tree shape): in every reachable state every node of every
\* heap, root or descendant, of rank r has exactly r children whose ranks
\* front to back are 0, 1, ..., r-1, and its tree has 2^r nodes.
C8_BinomialShape ==
    \A i \in Heaps : \A x \in 1..Len(heap[i]) :
        /\ shape_ok(heap[i][x])
        /\ count_nodes(<<heap[i][x]>>) = 2 ^ heap[i][x].rank

\* A pop has just re-merged the children of a root into a heap that now
\* has a root of rank 2 or more.
C8_Witness ==
    /\ ret.op = "pop"
    /\ call.made
    /\ call.a # <<>>
    /\ call.b # <<>>
    /\ \E x \in 1..Len(heap[ret.h]) : heap[ret.h][x].rank >= 2

\* ---- C9 ----------------------------------------------------------------
\* The value of n dominates every value held below n, and so for every
\* descendant of n.
RECURSIVE heap_ordered(_, _)
heap_ordered(o, n) ==
    /\ \A v \in Values :
           count_value(n.nodes, v) > 0 => dominates(o, n.value, v)
    /\ \A k \in 1..Len(n.nodes) : heap_ordered(o, n.nodes[k])

\* C9 (Heap-order invariant): in every reachable state every node's value
\* is at least as extremal as every value in its subtree (>= for lib.rs,
\* <= for main.rs), so the extremal value of a non-empty heap is at a root.
C9_HeapOrder ==
    \A i \in Heaps :
        /\ \A x \in 1..Len(heap[i]) : heap_ordered(ord, heap[i][x])
        /\ heap[i] # <<>> =>
               \E x \in 1..Len(heap[i]) : \A v \in Values :
                   count_value(heap[i], v) > 0
                       => dominates(ord, heap[i][x].value, v)

\* A heap holds a tree of rank 2 or more with two different values in it,
\* after a pop re-merged the children of a root.
C9_Witness ==
    /\ ret.op = "pop"
    /\ call.made
    /\ call.b # <<>>
    /\ \E x \in 1..Len(heap[ret.h]) :
           /\ heap[ret.h][x].rank >= 2
           /\ \E v \in Values :
                  v # heap[ret.h][x].value
                      /\ count_value(heap[ret.h][x].nodes, v) > 0

\* ---- C10 ---------------------------------------------------------------
\* C10 (Absent result): pop returns None exactly when the heap holds no
\* element at the call, peek returns None in exactly the same states, and a
\* pop that returns None leaves the heap as it was; a heap as constructed
\* has len() = 0, is_empty() and None from both peek and pop.
C10_AbsentResult ==
    /\ ret.op \in {"pop", "peek"} => (ret.val = None <=> ret.n = 0)
    /\ \A i \in Heaps :
           LET r == pop(ord, heap[i]) IN
           /\ r.ret = None <=> size[i] = 0
           /\ peek(ord, heap[i]) = None <=> size[i] = 0
           /\ r.ret = None => r.heads = heap[i]
    /\ len(new) = 0
    /\ is_empty(new)
    /\ peek(ord, new) = None
    /\ pop(ord, new).ret = None

\* A pop has just returned None on a heap that was emptied by pops, while
\* the other heap holds elements.
C10_Witness ==
    /\ ret.op = "pop"
    /\ ret.val = None
    /\ heap[ret.h] = <<>>
    /\ npush > size[1] + size[2]
    /\ \E j \in Heaps : heap[j] # <<>>

\* ---- C11 ---------------------------------------------------------------
\* C11 (peek is a pure observer): in every reachable state peek returns
\* exactly what a pop called next returns (None in both on an empty heap),
\* and a peek step leaves every root list (roots, ranks, children, values)
\* as it was.
C11_PeekPureObserver ==
    /\ [](\A i \in Heaps : peek(ord, heap[i]) = pop(ord, heap[i]).ret)
    /\ [][ret'.op = "peek" =>
            /\ heap' = heap
            /\ ret'.val = pop(ord, heap'[ret'.h]).ret]_vars

\* A peek has just returned a value from a heap with several roots holding
\* different values, the best of them not at the front.
C11_Witness ==
    /\ ret.op = "peek"
    /\ ret.val # None
    /\ Len(heap[ret.h]) >= 2
    /\ Some(heap[ret.h][1].value) # ret.val

\* ---- C12 ---------------------------------------------------------------
\* C12 (is_empty agrees with len): in every reachable state is_empty() is
\* true exactly when len() is 0.
C12_IsEmptyIffLenZero ==
    \A i \in Heaps : is_empty(heap[i]) <=> len(heap[i]) = 0

\* A pop has just taken the last element of a heap, so that heap is empty
\* again, while the other heap has several roots.
C12_Witness ==
    /\ ret.op = "pop"
    /\ ret.val # None
    /\ is_empty(heap[ret.h])
    /\ \E j \in Heaps : Len(heap[j]) >= 2

\* ---- C13 ---------------------------------------------------------------
\* The ordered merge of two sequences that are each sorted best first.
RECURSIVE merge_sorted(_, _, _)
merge_sorted(o, s, t) ==
    IF s = <<>> THEN t
    ELSE IF t = <<>> THEN s
    ELSE IF dominates(o, s[1], t[1])
         THEN <<s[1]>> \o merge_sorted(o, Tail(s), t)
         ELSE <<t[1]>> \o merge_sorted(o, s, Tail(t))

\* C13 (Merge equivalence): after A.merge(B), for heaps A and B built by
\* any pushes, pops and earlier merges, popping A until None yields the
\* ordered merge of what draining A and draining B separately would have
\* yielded: the values of both, best first.
C13_MergeEquivalence ==
    ret.op = "merge" =>
        drain_heap(ord, heap[ret.h])
            = merge_sorted(ord, drain_heap(ord, call.a),
                           drain_heap(ord, call.b))

\* A merge of two heaps of at least two elements each has just returned,
\* both heaps held both values, and some earlier pop returned a value.
C13_Witness ==
    /\ ret.op = "merge"
    /\ count_nodes(call.a) >= 2
    /\ count_nodes(call.b) >= 2
    /\ \A v \in Values :
           count_value(call.a, v) > 0 /\ count_value(call.b, v) > 0
    /\ npush > size[1] + size[2]

\* ---- C14 ---------------------------------------------------------------
\* Twice the roots still in the two deques plus the number of active calls.
mn_measure(m) == 2 * (Len(m.dq[1]) + Len(m.dq[2])) + Len(m.stack)

\* C14 (Totality of forest merge): for every pair of input forests every
\* step of merge_nodes, the argument-swapped recursive call included,
\* strictly lowers a measure that is a natural number, a call that has not
\* returned can always take a step, so merge_nodes eventually returns; what
\* it returns is the deque of merge_nodes taken as a whole, with both
\* operands emptied.
C14_MergeTotality ==
    /\ [][mn_measure(mn') < mn_measure(mn)]_vars
    /\ [](mn_measure(mn) >= 0)
    /\ [](~mn.done => ENABLED NextTerm)
    /\ <>(mn.done)
    /\ [](mn.done =>
            /\ mn.result = merge_nodes(ord, mn.a0, mn.b0).result
            /\ mn.dq = <<<<>>, <<>>>>)

\* merge_nodes has returned from a call on two forests of MaxRoots roots
\* whose back roots made it take the argument-swapped recursive call.
C14_Witness ==
    /\ phase = "merge_nodes"
    /\ mn.done
    /\ Len(mn.a0) = MaxRoots
    /\ Len(mn.b0) = MaxRoots
    /\ Last(mn.a0).rank > Last(mn.b0).rank

\* ---- C15 ---------------------------------------------------------------
\* res is the operand of h1, h2 whose value dominates (h1 on equal
\* values) with its rank one higher and the other operand, unchanged, as
\* its new last child behind its unchanged former children.
link_effect(o, h1, h2, res) ==
    LET w == IF dominates(o, h1.value, h2.value) THEN h1 ELSE h2
        l == IF dominates(o, h1.value, h2.value) THEN h2 ELSE h1
    IN /\ res.value = w.value
       /\ res.rank = w.rank + 1
       /\ Len(res.nodes) = Len(w.nodes) + 1
       /\ SubSeq(res.nodes, 1, Len(w.nodes)) = w.nodes
       /\ Last(res.nodes) = l

\* C15 (Link effect): in every merge_nodes call made by push, pop and
\* merge, at every depth of its recursion, combine is called with two nodes
\* of equal rank only, and returns the operand whose value dominates (h1
\* when the values are equal) with its rank raised by exactly 1 and the
\* other operand appended, unchanged, as its last child.
C15_LinkEffect ==
    call.made =>
        /\ mn_run(ord, mn_start(call.a, call.b)).result = call.result
        /\ \A l \in mn_links(ord, mn_start(call.a, call.b)) :
               /\ l.h1.rank = l.h2.rank
               /\ link_effect(ord, l.h1, l.h2, combine(ord, l.h1, l.h2))

\* A merge_nodes call has just linked at least twice, once two nodes of
\* rank 1 or more with different values where the second operand dominates.
C15_Witness ==
    /\ call.made
    /\ Cardinality(mn_links(ord, mn_start(call.a, call.b))) >= 2
    /\ \E l \in mn_links(ord, mn_start(call.a, call.b)) :
           /\ l.h1.rank >= 1
           /\ ~dominates(ord, l.h1.value, l.h2.value)

\* ---- C16 ---------------------------------------------------------------
\* C16 (Merge precondition at every call site): both arguments of every
\* merge_nodes call made by push, pop and merge are well-formed forests in
\* the same orientation: ranks pairwise distinct and the lowest rank at
\* the back.  In pop these are the remaining heads and the children of the
\* removed root.
C16_MergePrecondition ==
    call.made => rank_sorted(call.a) /\ rank_sorted(call.b)

\* ---- C17 ---------------------------------------------------------------
\* C17 (Consistent tie-break): whenever a merge_nodes call made by push,
\* pop or merge links two roots of equal rank and equal value that were
\* handed in with different arguments, the root that becomes the parent is
\* the one handed in with the first argument (self.heads).
C17_ConsistentTieBreak ==
    call.made =>
        \A l \in mn_links(ord, mn_start(call.a, call.b)) :
            (l.h1.value = l.h2.value /\ l.o1 # l.o2) => l.parent = 1

\* ---- C18 ---------------------------------------------------------------
\* C18 (Empty heap is the identity of merge): after h.merge(other) with an
\* empty other, h has the root list it had before (same roots in the same
\* order, same len(), same peek()); after merging a heap other into an
\* empty heap h, h has the root list other had.
C18_EmptyMergeIdentity ==
    ret.op = "merge" =>
        /\ call.b = <<>> =>
               /\ heap[ret.h] = call.a
               /\ len(heap[ret.h]) = len(call.a)
               /\ peek(ord, heap[ret.h]) = peek(ord, call.a)
        /\ call.a = <<>> => heap[ret.h] = call.b

=============================================================================
